---- MODULE Spec2Model ----
(***************************************************************************)
(* A model of CE/CE_train.py: the lazy shard loader (load_dataset), the    *)
(* multi-shard batch iterator (DatasetIter), and the run of the script     *)
(* (module-level setup, main, train_model) with its checkpoints.           *)
(*                                                                         *)
(* Three specifications share the definitions:                             *)
(*   SpecIter    a caller that builds one DatasetIter over the files on    *)
(*               disk and loops over it, twice;                            *)
(*   SpecTokens  the same caller, training with -batch_type tokens over    *)
(*               examples of drawn lengths;                                *)
(*   Spec        the script itself, run to completion and resumed.         *)
(***************************************************************************)
EXTENDS Integers, Sequences, FiniteSets, TLC

VARIABLES
    disk,       \* the dataset files under opt.data: file -> number of examples
    keys,       \* the attribute names of the examples in the dataset files
    lens,       \* file -> the <<src, tgt>> token counts of its examples
    opt,        \* the parsed options (opt.start_epoch is reassigned by main)
    pc,         \* position of the running code
    datasets,   \* the generator object returned by load_dataset
    di,         \* the DatasetIter object
    frame,      \* the generator frame of DatasetIter.__iter__
    reads,      \* files read by torch.load in dataset_loader, in order
    yielded,    \* batches yielded by the current DatasetIter, in order
    main_datasets,  \* main's local train_datasets: a chain over its generator
    first_dataset,  \* the dataset main peeks
    checkpoint,     \* the checkpoint main loaded from opt.train_from, or None
    optims,     \* g_optim, d_optim, nli_optim
    epoch,      \* the loop variable of train_model (0 before the loop)
    valid_ppl,  \* valid_stats.ppl() of the current epoch
    ckpts,      \* the checkpoint files on disk
    phases,     \* the phases the process has entered, as <<epoch, phase>>
    written,    \* the epochs the process has written a checkpoint for
    resumed,    \* the process is a rerun with -train_from
    argv,       \* -start_epoch and -train_from as given on the command line
    d_checkpoint,   \* the checkpoint main loaded from opt.d_train_from, or None
    fields      \* the dict load_fields returned: field name -> vocabulary

iterVars == <<datasets, di, frame, reads, yielded>>
runVars == <<main_datasets, first_dataset, checkpoint, optims, epoch,
             valid_ppl, ckpts, phases, written, resumed, argv, d_checkpoint,
             fields>>
inputVars == <<disk, keys, lens>>
vars == <<inputVars, opt, pc, iterVars, runVars>>

\* ---------------------------------------------------------------- bounds
MaxIndex == 10      \* numbered shard files carry an index in 0..MaxIndex
MaxShards == 2      \* at most this many numbered shard files per role
MaxExamples == 3    \* examples per shard file
MaxBatch == 2       \* -batch_size / -valid_batch_size
MaxEpochs == 2      \* -epochs, -start_epoch, -start_checkpoint_at
MaxPpl == 2         \* validation perplexities are 1..MaxPpl
MaxGpus == 2        \* -gpuid takes 1..MaxGpus device ids
MaxLen == 4         \* an example has 1..MaxLen source and target tokens
MaxBudget == 5      \* -batch_size as a token budget is 1..MaxBudget

\* ------------------------------------------------------------ file names
Roles == {"train", "valid"}

\* A dataset file of a role: idx >= 0 is <data>.<role>.<idx>.pt,
\* idx = -1 is the unnumbered <data>.<role>.pt.
File(role, idx) == [role |-> role, idx |-> idx]
NoFile == File("", -1)

\* The empty path '' of an option that names a checkpoint file; a
\* checkpoint file is named by <<epoch, perplexity>>.
NoPath == <<>>

\* str(n): the decimal digits of n as character codes ("0" is 48).
RECURSIVE Str(_)
Str(n) == IF n < 10 THEN <<48 + n>> ELSE Append(Str(n \div 10), 48 + (n % 10))

\* The part of a numbered file's path after "<data>.<role>.": "<idx>.pt".
PtName(f) == Str(f.idx) \o <<46, 112, 116>>

\* Python's str comparison: lexicographic on the character codes.
RECURSIVE StrLess(_, _)
StrLess(a, b) ==
    IF a = <<>> THEN b # <<>>
    ELSE IF b = <<>> THEN FALSE
    ELSE IF a[1] # b[1] THEN a[1] < b[1]
    ELSE StrLess(Tail(a), Tail(b))

\* glob.glob(opt.data + '.' + corpus_type + '.[0-9]*.pt')
Glob(corpus_type) == {f \in DOMAIN disk : f.role = corpus_type /\ f.idx >= 0}

\* sorted(...) of a set of paths sharing the prefix "<data>.<role>."
RECURSIVE Sorted(_)
Sorted(S) ==
    IF S = {} THEN <<>>
    ELSE LET m == CHOOSE x \in S :
                    \A y \in S \ {x} : StrLess(PtName(x), PtName(y))
         IN  <<m>> \o Sorted(S \ {m})

\* ---------------------------------------------------------- load_dataset
\* dataset_loader: torch.load(pt_file) gives the dataset held by the file.
dataset_loader(pt_file) ==
    [file |-> pt_file,
     examples |-> [j \in 1..disk[pt_file] |-> [file |-> pt_file, pos |-> j]]]

NoDataset == [file |-> NoFile, examples |-> <<>>]

\* A load_dataset generator. state: "created" (not started), "numbered"
\* (suspended at the yield of pts[k]), "single" (suspended at the final
\* yield), "finished".
Generator(corpus_type, state, pts, k) ==
    [role |-> corpus_type, state |-> state, pts |-> pts, k |-> k]

\* A load_dataset that builds the whole list of datasets when called.
load_dataset_eager(corpus_type) ==
    LET pts == Sorted(Glob(corpus_type))
    IN  [gen |-> Generator(corpus_type, "numbered", pts, 0), read |-> pts]

\* load_dataset is a generator function: the call runs none of its body,
\* so it gives a generator that has not started and reads no file.
load_dataset(corpus_type) ==
    [gen |-> Generator(corpus_type, "created", <<>>, 0), read |-> <<>>]

NoGenerator == Generator("", "finished", <<>>, 0)

\* itertools.chain(items, gen): the datasets of the list `items`, already
\* loaded, then the values of the generator gen. A chain with no items
\* stands for the generator alone.
chain(items, gen) == [items |-> items, gen |-> gen]
NoChain == chain(<<>>, NoGenerator)

\* next(g) on a load_dataset generator: the generator afterwards, what the
\* call gave ("value", "stop" for StopIteration, "error" for the exception
\* of torch.load on a missing file), and the file it read.
GenNext(g) ==
    IF g.state = "created" THEN
        LET pts == Sorted(Glob(g.role))
            pt == File(g.role, -1)
        IN  IF pts # <<>> THEN
                [gen |-> [g EXCEPT !.state = "numbered", !.pts = pts, !.k = 1],
                 kind |-> "value", file |-> pts[1]]
            ELSE IF pt \in DOMAIN disk THEN
                [gen |-> [g EXCEPT !.state = "single"],
                 kind |-> "value", file |-> pt]
            ELSE
                [gen |-> [g EXCEPT !.state = "finished"],
                 kind |-> "error", file |-> NoFile]
    ELSE IF g.state = "numbered" /\ g.k < Len(g.pts) THEN
        [gen |-> [g EXCEPT !.k = g.k + 1],
         kind |-> "value", file |-> g.pts[g.k + 1]]
    ELSE
        [gen |-> [g EXCEPT !.state = "finished"],
         kind |-> "stop", file |-> NoFile]

\* next(c) on a chain: an item of the list while one is left, which reads
\* no file, then next() on the generator.
ChainNext(c) ==
    IF c.items # <<>> THEN
        [chain |-> chain(Tail(c.items), c.gen), kind |-> "value",
         dataset |-> Head(c.items), read |-> <<>>]
    ELSE
        LET r == GenNext(c.gen)
        IN  [chain |-> chain(<<>>, r.gen), kind |-> r.kind,
             dataset |-> IF r.kind = "value" THEN dataset_loader(r.file)
                         ELSE NoDataset,
             read |-> IF r.kind = "value" THEN <<r.file>> ELSE <<>>]

\* ------------------------------------------------------- OrderedIterator
\* The values of the parameter batch_size_fn: None, or the function
\* make_dataset_iter defines.
NoFn == "None"
TokensFn == "batch_size_fn"

NoneIter ==
    [none |-> TRUE, dataset |-> NoDataset, batch_size |-> 0,
     batch_size_fn |-> NoFn]

OrderedIterator(dataset, batch_size, fn) ==
    [none |-> FALSE, dataset |-> dataset, batch_size |-> batch_size,
     batch_size_fn |-> fn]

Max(a, b) == IF a >= b THEN a ELSE b
Min(a, b) == IF a <= b THEN a ELSE b

\* len(new.src), len(new.tgt) of an example.
SrcLen(new) == lens[new.file][new.pos].src
TgtLen(new) == lens[new.file][new.pos].tgt

\* A batch_size_fn that counts the shorter side of the example.
batch_size_fn_min(new, count, sofar) ==
    sofar + Min(TgtLen(new), SrcLen(new)) + 1

\* make_dataset_iter, lines 194-195:
\*     return sofar + max(len(new.tgt), len(new.src)) + 1
batch_size_fn(new, count, sofar) ==
    sofar + Max(TgtLen(new), SrcLen(new)) + 1

\* The batches one pass over an OrderedIterator gives under the fixed
\* example-count policy: consecutive groups of at most batch_size examples.
RECURSIVE Chunks(_, _)
Chunks(examples, batch_size) ==
    IF examples = <<>> THEN <<>>
    ELSE IF Len(examples) <= batch_size THEN <<examples>>
    ELSE <<SubSeq(examples, 1, batch_size)>>
         \o Chunks(SubSeq(examples, batch_size + 1, Len(examples)), batch_size)

\* The batches one pass gives under the token-budget policy: a batch grows
\* while the cost batch_size_fn accumulates stays within batch_size; the
\* example that would exceed it starts the next batch, so an example whose
\* own cost exceeds the budget is alone in its batch.
RECURSIVE TokenChunks(_, _, _, _)
TokenChunks(examples, batch_size, minibatch, size_so_far) ==
    IF examples = <<>> THEN
        IF minibatch = <<>> THEN <<>> ELSE <<minibatch>>
    ELSE
        LET ex == Head(examples)
            size == batch_size_fn(ex, Len(minibatch) + 1, size_so_far)
        IN  IF size = batch_size THEN
                <<Append(minibatch, ex)>>
                    \o TokenChunks(Tail(examples), batch_size, <<>>, 0)
            ELSE IF size > batch_size THEN
                (IF minibatch = <<>> THEN <<>> ELSE <<minibatch>>)
                    \o TokenChunks(Tail(examples), batch_size, <<ex>>,
                                   batch_size_fn(ex, 1, 0))
            ELSE TokenChunks(Tail(examples), batch_size,
                             Append(minibatch, ex), size)

Batches(it) ==
    IF it.batch_size_fn = NoFn
    THEN Chunks(it.dataset.examples, it.batch_size)
    ELSE TokenChunks(it.dataset.examples, it.batch_size, <<>>, 0)

\* ----------------------------------------------------------- DatasetIter
\* DatasetIter._next_dataset_iterator(dataset_iter), where dataset_iter is
\* self.datasets or the generator expression over it: both take the next
\* value of the same load_dataset generator.
next_dataset_iterator(self) ==
    LET r == GenNext(self.datasets)
    IN  IF r.kind = "value" THEN
            [self |-> [self EXCEPT
                        !.datasets = r.gen,
                        !.cur_dataset = dataset_loader(r.file),
                        !.cur_iter = OrderedIterator(dataset_loader(r.file),
                                                     self.batch_size,
                                                     self.batch_size_fn)],
             kind |-> "value", read |-> <<r.file>>]
        ELSE
            [self |-> [self EXCEPT !.datasets = r.gen, !.cur_iter = NoneIter],
             kind |-> r.kind, read |-> <<>>]

\* DatasetIter.__init__
DatasetIterInit(gen, batch_size, fn, is_train) ==
    next_dataset_iterator(
        [datasets |-> gen, batch_size |-> batch_size, batch_size_fn |-> fn,
         is_train |-> is_train,
         cur_dataset |-> NoDataset, cur_iter |-> NoneIter])

NoDatasetIter ==
    [datasets |-> NoGenerator, batch_size |-> 0, batch_size_fn |-> NoFn,
     is_train |-> FALSE,
     cur_dataset |-> NoDataset, cur_iter |-> NoneIter]

\* make_dataset_iter with the two batch sizes exchanged.
make_dataset_iter_swapped(gen, is_train) ==
    DatasetIterInit(gen,
                    IF is_train THEN opt.valid_batch_size ELSE opt.batch_size,
                    IF is_train /\ opt.batch_type = "tokens"
                    THEN TokensFn ELSE NoFn,
                    is_train)

\* make_dataset_iter
make_dataset_iter(gen, is_train) ==
    DatasetIterInit(gen,
                    IF is_train THEN opt.batch_size ELSE opt.valid_batch_size,
                    IF is_train /\ opt.batch_type = "tokens"
                    THEN TokensFn ELSE NoFn,
                    is_train)

\* The frame of the generator DatasetIter.__iter__: "unstarted", "running"
\* (suspended at `yield batch`, rest = the batches the for loop has left),
\* or "finished".
NewFrame == [state |-> "unstarted", rest |-> <<>>]
NoBatch == <<>>

\* The body of __iter__ from the head of the for loop, with `rest` the
\* batches the loop over self.cur_iter has left, up to the next yield or
\* the end of the while loop.
RECURSIVE IterRun(_, _, _)
IterRun(self, rest, read) ==
    IF rest # <<>> THEN
        [self |-> self, frame |-> [state |-> "running", rest |-> Tail(rest)],
         kind |-> "value", batch |-> Head(rest), read |-> read]
    ELSE
        LET r == next_dataset_iterator(self)
        IN  IF r.self.cur_iter.none THEN
                [self |-> r.self, frame |-> [state |-> "finished", rest |-> <<>>],
                 kind |-> "stop", batch |-> NoBatch, read |-> read \o r.read]
            ELSE IterRun(r.self, Batches(r.self.cur_iter), read \o r.read)

\* An __iter__ that iterates self.datasets from its first element again,
\* as `(d for d in self.datasets)` would over a list.
IterNextRestart(self, fr) ==
    IF fr.state = "finished" THEN
        [self |-> self, frame |-> fr, kind |-> "stop", batch |-> NoBatch,
         read |-> <<>>]
    ELSE IF fr.state = "unstarted" THEN
        IF self.cur_iter.none THEN
            [self |-> self, frame |-> [state |-> "finished", rest |-> <<>>],
             kind |-> "stop", batch |-> NoBatch, read |-> <<>>]
        ELSE IterRun([self EXCEPT
                        !.datasets = load_dataset(self.datasets.role).gen],
                     Batches(self.cur_iter), <<>>)
    ELSE IterRun(self, fr.rest, <<>>)

\* An __iter__ that loads the datasets anew when the iterator is exhausted.
IterNextRewind(self, fr) ==
    IF fr.state = "finished" THEN
        [self |-> self, frame |-> fr, kind |-> "stop", batch |-> NoBatch,
         read |-> <<>>]
    ELSE IF fr.state = "unstarted" THEN
        IF self.cur_iter.none THEN
            IterRun([self EXCEPT
                        !.datasets = load_dataset(self.datasets.role).gen],
                    <<>>, <<>>)
        ELSE IterRun(self, Batches(self.cur_iter), <<>>)
    ELSE IterRun(self, fr.rest, <<>>)

\* next() on the frame of __iter__.
IterNext(self, fr) ==
    IF fr.state = "finished" THEN
        [self |-> self, frame |-> fr, kind |-> "stop", batch |-> NoBatch,
         read |-> <<>>]
    ELSE IF fr.state = "unstarted" THEN
        IF self.cur_iter.none THEN
            [self |-> self, frame |-> [state |-> "finished", rest |-> <<>>],
             kind |-> "stop", batch |-> NoBatch, read |-> <<>>]
        ELSE IterRun(self, Batches(self.cur_iter), <<>>)
    ELSE IterRun(self, fr.rest, <<>>)

\* ------------------------------------------------- optimizers, checkpoints
\* onmt.Optim: the scheduling state of one optimizer. best_ppl = 0 stands
\* for no perplexity seen yet.
Optim(learning_rate) == [lr |-> learning_rate, step |-> 0, best_ppl |-> 0]

NoOptim == Optim(0)
OptimTypes == {"g_optim", "d_optim", "nli_optim"}
NoOptims == [t \in OptimTypes |-> NoOptim]

NoCheckpoint ==
    [none |-> TRUE, name |-> NoPath, epoch |-> 0, optims |-> NoOptims]

\* ----------------------------------------------------------------- fields
\* The names of the fields onmt.io builds, and the attribute names of an
\* example that was preprocessed with the NLI label ('per') or without it.
FieldNames == {"src", "tgt", "per", "indices"}
KeySets == {FieldNames, FieldNames \ {"per"}}

\* A field without a vocabulary; the dict of fields before load_fields.
NoVocab == ""
NoFields == <<>>

\* Every example of a file holds one source and one target token.
UnitLens(d) ==
    [f \in DOMAIN d |-> [j \in 1..d[f] |-> [src |-> 1, tgt |-> 1]]]

\* The state of the script's variables before the script runs.
RunIdle ==
    /\ main_datasets = NoChain
    /\ first_dataset = NoDataset
    /\ checkpoint = NoCheckpoint
    /\ optims = NoOptims
    /\ epoch = 0
    /\ valid_ppl = 0
    /\ ckpts = {}
    /\ phases = <<>>
    /\ written = <<>>
    /\ resumed = FALSE
    /\ argv = [start_epoch |-> opt.start_epoch, train_from |-> opt.train_from]
    /\ d_checkpoint = NoCheckpoint
    /\ fields = NoFields

\* ------------------------------------------------- a caller of DatasetIter
\* The options with their defaults (CE_opts.py) but for the batch sizes.
\* Learning rates are in millionths, learning_rate_decay is the fraction
\* num/den; train_from is a checkpoint file name, NoPath for ''.
DefaultOpt(bs, vbs) ==
    [batch_size |-> bs, valid_batch_size |-> vbs,
     start_epoch |-> 1, epochs |-> 13, start_checkpoint_at |-> 0,
     train_from |-> NoPath, d_train_from |-> NoPath, exp_host |-> "",
     rnn_type |-> "LSTM", gpuid |-> <<0>>, batch_type |-> "sents",
     g_learning_rate |-> 1000, d_learning_rate |-> 1000,
     nli_learning_rate |-> 1000,
     learning_rate_decay_num |-> 5, learning_rate_decay_den |-> 10,
     start_decay_at |-> 8]

\* The files a role can have on disk: numbered files with consecutive
\* indices lo..hi (at most MaxShards of them, hi <= MaxIndex), as the
\* preprocessing step numbers them, and possibly the unnumbered file.
RoleFiles(role) ==
    {{File(role, i) : i \in I} \cup U :
        I \in {lo..hi : lo \in 0..MaxIndex,
                        hi \in (-1)..MaxIndex} \cap
              {J \in SUBSET (0..MaxIndex) : Cardinality(J) <= MaxShards},
        U \in {{}, {File(role, -1)}}}

\* Every file of a set of files holds 1..MaxExamples examples.
Disks(FS) == UNION {[F -> 1..MaxExamples] : F \in FS}

\* The caller's role has the files drawn for it; the other role has one
\* numbered file.

InitIter ==
    /\ \E role \in Roles :
         LET other == CHOOSE r \in Roles : r # role
         IN  /\ \E d \in Disks(RoleFiles(role)) :
                    disk = d @@ (File(other, 0) :> 1)
             /\ pc = <<"caller", role>>
    /\ keys = FieldNames
    /\ lens = UnitLens(disk)
    /\ opt \in {DefaultOpt(b, v) : b \in 1..MaxBatch, v \in 1..MaxBatch}
    /\ datasets = NoGenerator
    /\ di = NoDatasetIter
    /\ frame = NewFrame
    /\ reads = <<>>
    /\ yielded = <<>>
    /\ RunIdle

\* datasets = load_dataset(role)
CallLoadDataset ==
    /\ pc[1] = "caller"
    /\ datasets' = load_dataset(pc[2]).gen
    /\ reads' = reads \o load_dataset(pc[2]).read
    /\ pc' = <<"loaded", pc[2]>>
    /\ UNCHANGED <<inputVars, opt, di, frame, yielded, runVars>>

\* it = make_dataset_iter(datasets, fields, opt, is_train)
CallMakeDatasetIter ==
    /\ pc[1] = "loaded"
    /\ LET r == make_dataset_iter(datasets, pc[2] = "train")
       IN  /\ di' = r.self
           /\ datasets' = r.self.datasets
           /\ reads' = reads \o r.read
           /\ pc' = <<(IF r.kind = "value" THEN "iterating" ELSE "raised"), pc[2]>>
    /\ frame' = NewFrame
    /\ UNCHANGED <<inputVars, opt, yielded, runVars>>

\* one step of `for batch in it`, in the caller's first loop over the
\* iterator ("iterating", then "exhausted") or in its second loop ("again",
\* then "over")
CallNext ==
    /\ pc[1] \in {"iterating", "again"}
    /\ LET r == IterNext(di, frame)
       IN  /\ di' = r.self
           /\ datasets' = r.self.datasets
           /\ frame' = r.frame
           /\ reads' = reads \o r.read
           /\ yielded' = IF r.kind = "value" THEN Append(yielded, r.batch)
                         ELSE yielded
           /\ pc' = <<(IF r.kind = "value" THEN pc[1]
                       ELSE IF pc[1] = "iterating" THEN "exhausted"
                       ELSE "over"), pc[2]>>
    /\ UNCHANGED <<inputVars, opt, runVars>>

\* a second `for batch in it` over the same DatasetIter: iter(it) calls
\* __iter__ again, which gives a new generator frame
CallIter ==
    /\ pc[1] = "exhausted"
    /\ frame' = NewFrame
    /\ pc' = <<"again", pc[2]>>
    /\ UNCHANGED <<inputVars, opt, datasets, di, reads, yielded, runVars>>

NextIter == CallLoadDataset \/ CallMakeDatasetIter \/ CallNext \/ CallIter

SpecIter == InitIter /\ [][NextIter]_vars

\* ------------------------------- a caller under the token-budget policy
\* The token counts of an example: 1..MaxLen tokens on one side, one token
\* on the other.
PairLens ==
    {l \in [src : 1..MaxLen, tgt : 1..MaxLen] : l.src = 1 \/ l.tgt = 1}

\* The token counts of the examples of one file.
FileLens == UNION {[1..n -> PairLens] : n \in 1..MaxExamples}

\* Training with -batch_type tokens over one train file of drawn examples,
\* alone or followed by a second file of one short example.
InitTokens ==
    /\ \E l \in FileLens, more \in BOOLEAN :
         lens = IF more
                THEN (File("train", 1) :> l)
                        @@ (File("train", 2) :> <<[src |-> 1, tgt |-> 1]>>)
                ELSE (File("train", 1) :> l)
    /\ disk = [f \in DOMAIN lens |-> Len(lens[f])]
    /\ keys = FieldNames
    /\ opt \in {[DefaultOpt(b, 1) EXCEPT !.batch_type = "tokens"] :
                    b \in 1..MaxBudget}
    /\ pc = <<"caller", "train">>
    /\ datasets = NoGenerator
    /\ di = NoDatasetIter
    /\ frame = NewFrame
    /\ reads = <<>>
    /\ yielded = <<>>
    /\ RunIdle

SpecTokens == InitTokens /\ [][NextIter]_vars

\* ------------------------------------------------------------ the script
\* The files of a run: numbered train files 1..kt (the unnumbered one when
\* kt = 0, none when kt = -1), valid files likewise, MaxExamples examples
\* each.
RunFiles(role, k) ==
    IF k = 0 THEN {File(role, -1)} ELSE {File(role, i) : i \in 1..k}

\* The same, or no file of a role at all.
RunFilesOrNone(role, k) == IF k = -1 THEN {} ELSE RunFiles(role, k)

RunDisks ==
    {[f \in RunFilesOrNone("train", kt) \cup RunFilesOrNone("valid", kv)
         |-> MaxExamples] :
        kt \in (-1)..MaxShards, kv \in (-1)..1}

\* -gpuid (CE_opts.py lines 154-155): default [0], nargs='+', so one device
\* id or more, never none. -rnn_type (line 115): one of three choices.
Gpuids == {[i \in 1..n |-> i - 1] : n \in 1..MaxGpus}
RnnTypes == {"LSTM", "GRU", "SRU"}

\* The options of a run: the epoch and logging options drawn with the default
\* devices and recurrent unit, and the devices and recurrent unit drawn with
\* one epoch.
RunOpts ==
    {[DefaultOpt(MaxBatch, 1) EXCEPT
        !.start_epoch = se, !.epochs = ep, !.start_checkpoint_at = sc,
        !.exp_host = host] :
     se \in 1..MaxEpochs, ep \in 1..MaxEpochs,
     sc \in 0..MaxEpochs, host \in {"", "host"}}
    \cup
    {[DefaultOpt(MaxBatch, 1) EXCEPT
        !.epochs = 1, !.rnn_type = r, !.gpuid = g] :
     r \in RnnTypes, g \in Gpuids}

Init ==
    /\ disk \in RunDisks
    /\ keys \in KeySets
    /\ lens = UnitLens(disk)
    /\ opt \in RunOpts
    /\ pc = <<"config", "">>
    /\ datasets = NoGenerator
    /\ di = NoDatasetIter
    /\ frame = NewFrame
    /\ reads = <<>>
    /\ yielded = <<>>
    /\ RunIdle

Raised(what) == <<"raised", what>>
At(label) == pc = <<label, "">>
Goto(label) == pc' = <<label, "">>

\* The module-level checks with no rejection of several devices.
ConfigChecksNoMulti ==
    /\ At("config")
    /\ \E cuda_ok \in BOOLEAN :
         pc' = IF opt.rnn_type = "SRU" /\ opt.gpuid = <<>>
                 THEN Raised("config")
               ELSE IF opt.gpuid # <<>> /\ ~cuda_ok
                 THEN Raised("cuda")
               ELSE <<"crayon", "">>
    /\ UNCHANGED <<inputVars, opt, iterVars, runVars>>

\* Lines 40-53: SRU needs -gpuid (AssertionError); cuda.set_device on the
\* first device raises when the device cannot be used; more than one device
\* is refused with sys.exit(1).
ConfigChecks ==
    /\ At("config")
    /\ \E cuda_ok \in BOOLEAN :
         pc' = IF opt.rnn_type = "SRU" /\ opt.gpuid = <<>>
                 THEN Raised("config")
               ELSE IF opt.gpuid # <<>> /\ ~cuda_ok
                 THEN Raised("cuda")
               ELSE IF Len(opt.gpuid) > 1
                 THEN Raised("config")
               ELSE <<"crayon", "">>
    /\ UNCHANGED <<inputVars, opt, iterVars, runVars>>

\* Lines 56-65: set up the Crayon logging server. Every call on the client
\* goes to the remote server and raises when the server fails.
CrayonSetup ==
    /\ At("crayon")
    /\ IF opt.exp_host # ""
       THEN \E ok \in BOOLEAN : pc' = IF ok THEN <<"main", "">> ELSE Raised("logging")
       ELSE Goto("main")
    /\ UNCHANGED <<inputVars, opt, iterVars, runVars>>

\* main, lines 356-364: peek the first train dataset (line 362), then put
\* it back in front of the generator (line 363); when the peek raises,
\* train_datasets is still the generator.
MainPeek ==
    /\ At("main")
    /\ LET r == GenNext(load_dataset("train").gen)
       IN  /\ main_datasets' = IF r.kind = "value"
                                THEN chain(<<dataset_loader(r.file)>>, r.gen)
                                ELSE chain(<<>>, r.gen)
           /\ reads' = reads \o load_dataset("train").read
                             \o (IF r.kind = "value" THEN <<r.file>> ELSE <<>>)
           /\ first_dataset' = IF r.kind = "value" THEN dataset_loader(r.file)
                               ELSE NoDataset
           /\ pc' = IF r.kind = "value" THEN <<"train_from", "">> ELSE Raised("data")
    /\ UNCHANGED <<inputVars, opt, datasets, di, frame, yielded, checkpoint, optims,
                   epoch, valid_ppl, ckpts, phases, written, resumed, argv,
                   d_checkpoint, fields>>

\* torch.load of a checkpoint file.
LoadCheckpointFile(path) == CHOOSE c \in ckpts : c.name = path

\* The start epoch of a run resumed from the checkpoint's epoch, unchanged.
ResumeEpochSame(ckpt) == ckpt.epoch

\* Line 373: opt.start_epoch = checkpoint['epoch'] + 1
ResumeEpoch(ckpt) == ckpt.epoch + 1

\* main, lines 366-379: load the checkpoint of -train_from.
MainTrainFrom ==
    /\ At("train_from")
    /\ IF opt.train_from # NoPath
       THEN /\ checkpoint' = LoadCheckpointFile(opt.train_from)
            /\ opt' = [opt EXCEPT !.start_epoch = ResumeEpoch(checkpoint')]
            /\ d_checkpoint' = IF opt.d_train_from # NoPath
                               THEN LoadCheckpointFile(opt.d_train_from)
                               ELSE NoCheckpoint
       ELSE /\ checkpoint' = NoCheckpoint
            /\ opt' = opt
            /\ d_checkpoint' = NoCheckpoint
    /\ Goto("fields")
    /\ UNCHANGED <<inputVars, iterVars, main_datasets, first_dataset, optims,
                   epoch, valid_ppl, ckpts, phases, written, resumed, argv,
                   fields>>

\* torch.load(opt.data + '.vocab.pt'): a vocabulary, named here by its
\* field, for each field of the examples that has one.
VocabFile == [k \in keys \cap {"src", "tgt", "per"} |-> k]

\* onmt.io.load_fields_from_vocab: every field, with the vocabulary the
\* file holds for it.
load_fields_from_vocab(vocab) ==
    [k \in FieldNames |-> IF k \in DOMAIN vocab THEN vocab[k] ELSE NoVocab]

\* load_fields, lines 265-285: keep the fields that are attributes of the
\* dataset's first example, then give 'per' the vocabulary of 'tgt'; the
\* subscript fields['per'] raises KeyError when the field was not kept.
load_fields(dataset) ==
    LET all == load_fields_from_vocab(VocabFile)
        kept == [k \in FieldNames \cap keys |-> all[k]]
    IN  IF dataset.examples # <<>> /\ {"per", "tgt"} \subseteq DOMAIN kept
        THEN [kind |-> "value", fields |-> [kept EXCEPT !["per"] = kept["tgt"]]]
        ELSE [kind |-> "error", fields |-> NoFields]

\* main, line 382: fields = load_fields(first_dataset, data_type, checkpoint)
MainLoadFields ==
    /\ At("fields")
    /\ LET r == load_fields(first_dataset)
       IN  /\ fields' = r.fields
           /\ pc' = IF r.kind = "value" THEN <<"build", "">> ELSE Raised("fields")
    /\ UNCHANGED <<inputVars, opt, iterVars, main_datasets, first_dataset,
                   checkpoint, optims, epoch, valid_ppl, ckpts, phases, written,
                   resumed, argv, d_checkpoint>>

\* build_optim, lines 310-330: the branch that takes the optimizer from the
\* checkpoint is guarded by `... and False`.
build_optim(ckpt, type, learning_rate) ==
    IF opt.train_from # NoPath /\ ~ckpt.none /\ FALSE
    THEN ckpt.optims[type]
    ELSE Optim(learning_rate)

\* main, lines 384-395: the models and the three optimizers.
MainBuild ==
    /\ At("build")
    /\ optims' = [t \in OptimTypes |->
                    build_optim(checkpoint, t,
                                CASE t = "g_optim" -> opt.g_learning_rate
                                  [] t = "d_optim" -> opt.d_learning_rate
                                  [] t = "nli_optim" -> opt.nli_learning_rate)]
    /\ Goto("for")
    /\ UNCHANGED <<inputVars, opt, iterVars, main_datasets, first_dataset, checkpoint,
                   epoch, valid_ppl, ckpts, phases, written, resumed, argv,
                   d_checkpoint, fields>>

\* train_model, line 235: for epoch in range(opt.start_epoch, opt.epochs + 1)
ForEpoch ==
    /\ At("for")
    /\ LET e == IF epoch = 0 THEN opt.start_epoch ELSE epoch + 1
       IN  IF e <= opt.epochs
           THEN epoch' = e /\ Goto("train")
           ELSE epoch' = epoch /\ Goto("done")
    /\ UNCHANGED <<inputVars, opt, iterVars, main_datasets, first_dataset, checkpoint,
                   optims, valid_ppl, ckpts, phases, written, resumed, argv,
                   d_checkpoint, fields>>

\* A train_model that iterates the generator main peeked into, without the
\* dataset that line 363 puts back in front of it.
NewIterFromMain(role, label) ==
    LET g == IF role = "train" THEN [gen |-> main_datasets.gen, read |-> <<>>]
             ELSE load_dataset(role)
        r == make_dataset_iter(g.gen, role = "train")
    IN  /\ di' = r.self
        /\ datasets' = r.self.datasets
        /\ frame' = NewFrame
        /\ reads' = reads \o g.read \o r.read
        /\ yielded' = <<>>
        /\ pc' = IF r.kind = "value" THEN <<label, "">> ELSE Raised("data")

\* A new DatasetIter over load_dataset(role): lines 239-240 and 245-247.
NewIter(role, label) ==
    LET g == load_dataset(role)
        r == make_dataset_iter(g.gen, role = "train")
    IN  /\ di' = r.self
        /\ datasets' = r.self.datasets
        /\ frame' = NewFrame
        /\ reads' = reads \o g.read \o r.read
        /\ yielded' = <<>>
        /\ pc' = IF r.kind = "value" THEN <<label, "">> ELSE Raised("data")

\* train_model, lines 238-240: the train iterator of the epoch.
TrainSetup ==
    /\ At("train")
    /\ NewIter("train", "training")
    /\ phases' = Append(phases, <<epoch, "TRAINING">>)
    /\ UNCHANGED <<inputVars, opt, main_datasets, first_dataset, checkpoint, optims,
                   epoch, valid_ppl, ckpts, written, resumed, argv,
                   d_checkpoint, fields>>

\* Optim.step: one gradient application.
OptimStep(o) == [o EXCEPT !.step = o.step + 1]

\* report_func, lines 68-91, called by the trainer after each batch:
\* TRUE when it returns, FALSE when report_stats.log raises.
report_func(report_flag, log_ok) ==
    IF report_flag /\ opt.exp_host # "" THEN log_ok ELSE TRUE

\* trainer.train, line 241: one batch of the train iterator, or its end.
TrainStep ==
    /\ At("training")
    /\ LET r == IterNext(di, frame)
       IN  /\ di' = r.self
           /\ datasets' = r.self.datasets
           /\ frame' = r.frame
           /\ reads' = reads \o r.read
           /\ IF r.kind = "value"
              THEN /\ yielded' = Append(yielded, r.batch)
                   /\ optims' = [t \in OptimTypes |-> OptimStep(optims[t])]
                   /\ \E report_flag \in BOOLEAN, log_ok \in BOOLEAN :
                        pc' = IF report_func(report_flag, log_ok)
                              THEN pc ELSE Raised("logging")
              ELSE /\ yielded' = yielded
                   /\ optims' = optims
                   /\ Goto("valid")
    /\ UNCHANGED <<inputVars, opt, main_datasets, first_dataset, checkpoint, epoch,
                   valid_ppl, ckpts, phases, written, resumed, argv,
                   d_checkpoint, fields>>

\* train_model, lines 244-247: the validation iterator of the epoch.
ValidSetup ==
    /\ At("valid")
    /\ NewIter("valid", "validating")
    /\ phases' = Append(phases, <<epoch, "VALIDATING">>)
    /\ UNCHANGED <<inputVars, opt, main_datasets, first_dataset, checkpoint, optims,
                   epoch, valid_ppl, ckpts, written, resumed, argv,
                   d_checkpoint, fields>>

\* trainer.validate, line 249: one batch of the validation iterator, or its
\* end, where the statistics give the epoch's validation perplexity.
ValidStep ==
    /\ At("validating")
    /\ LET r == IterNext(di, frame)
       IN  /\ di' = r.self
           /\ datasets' = r.self.datasets
           /\ frame' = r.frame
           /\ reads' = reads \o r.read
           /\ IF r.kind = "value"
              THEN /\ yielded' = Append(yielded, r.batch)
                   /\ valid_ppl' = valid_ppl
                   /\ pc' = pc
              ELSE /\ yielded' = yielded
                   /\ valid_ppl' \in 1..MaxPpl
                   /\ Goto("log")
    /\ UNCHANGED <<inputVars, opt, main_datasets, first_dataset, checkpoint, optims,
                   epoch, ckpts, phases, written, resumed, argv,
                   d_checkpoint, fields>>

\* train_model, lines 252-255: log the epoch to the remote server.
EpochLog ==
    /\ At("log")
    /\ IF opt.exp_host # ""
       THEN \E ok \in BOOLEAN : pc' = IF ok THEN <<"rate", "">> ELSE Raised("logging")
       ELSE Goto("rate")
    /\ UNCHANGED <<inputVars, opt, iterVars, runVars>>

\* Optim.update_learning_rate(ppl, epoch): decay the rate when the
\* perplexity did not improve or the epoch reached start_decay_at.
update_learning_rate(o, ppl, e) ==
    LET decay == \/ e >= opt.start_decay_at
                 \/ o.best_ppl # 0 /\ ppl >= o.best_ppl
    IN  [o EXCEPT
           !.lr = IF decay
                  THEN (o.lr * opt.learning_rate_decay_num)
                           \div opt.learning_rate_decay_den
                  ELSE o.lr,
           !.best_ppl = IF o.best_ppl = 0 \/ ppl < o.best_ppl THEN ppl
                        ELSE o.best_ppl]

\* train_model, lines 257-258: trainer.epoch_step(valid_stats.ppl(), epoch)
EpochStep ==
    /\ At("rate")
    /\ optims' = [t \in OptimTypes |->
                    update_learning_rate(optims[t], valid_ppl, epoch)]
    /\ phases' = Append(phases, <<epoch, "RATE_UPDATE">>)
    /\ Goto("checkpoint")
    /\ UNCHANGED <<inputVars, opt, iterVars, main_datasets, first_dataset, checkpoint,
                   epoch, valid_ppl, ckpts, written, resumed, argv,
                   d_checkpoint, fields>>

\* trainer.drop_checkpoint: the file is named from the epoch and the
\* validation perplexity and holds the epoch and the three optimizers.
CheckpointRecord(e, ppl, os) ==
    [none |-> FALSE, name |-> <<e, ppl>>, epoch |-> e, optims |-> os]

WriteCheckpoint ==
    /\ ckpts' = {c \in ckpts : c.name # <<epoch, valid_ppl>>}
                    \cup {CheckpointRecord(epoch, valid_ppl, optims)}
    /\ phases' = Append(phases, <<epoch, "CHECKPOINT">>)
    /\ written' = Append(written, epoch)

\* A train_model that checkpoints only after epoch start_checkpoint_at.
DropCheckpointStrict ==
    /\ At("checkpoint")
    /\ IF epoch > opt.start_checkpoint_at
       THEN WriteCheckpoint
       ELSE UNCHANGED <<ckpts, phases, written>>
    /\ Goto("for")
    /\ UNCHANGED <<inputVars, opt, iterVars, main_datasets, first_dataset, checkpoint,
                   optims, epoch, valid_ppl, resumed, argv,
                   d_checkpoint, fields>>

\* A train_model that checkpoints every epoch.
DropCheckpointAlways ==
    /\ At("checkpoint")
    /\ WriteCheckpoint
    /\ Goto("for")
    /\ UNCHANGED <<inputVars, opt, iterVars, main_datasets, first_dataset, checkpoint,
                   optims, epoch, valid_ppl, resumed, argv,
                   d_checkpoint, fields>>

\* A train_model that returns after the first epoch's checkpoint step.
DropCheckpointReturn ==
    /\ At("checkpoint")
    /\ IF epoch >= opt.start_checkpoint_at
       THEN WriteCheckpoint
       ELSE UNCHANGED <<ckpts, phases, written>>
    /\ Goto("done")
    /\ UNCHANGED <<inputVars, opt, iterVars, main_datasets, first_dataset, checkpoint,
                   optims, epoch, valid_ppl, resumed, argv,
                   d_checkpoint, fields>>

\* train_model, lines 260-262: drop a checkpoint if needed, then loop.
DropCheckpoint ==
    /\ At("checkpoint")
    /\ IF epoch >= opt.start_checkpoint_at
       THEN WriteCheckpoint
       ELSE UNCHANGED <<ckpts, phases, written>>
    /\ Goto("for")
    /\ UNCHANGED <<inputVars, opt, iterVars, main_datasets, first_dataset, checkpoint,
                   optims, epoch, valid_ppl, resumed, argv,
                   d_checkpoint, fields>>

\* The command lines of a rerun over the checkpoints on disk: -train_from
\* with any -start_epoch; -train_from the latest checkpoint with
\* -d_train_from any of them; -d_train_from alone, for the last epoch.
ResumeArgs ==
    LET names == {c.name : c \in ckpts}
        latest == {c.name : c \in {c \in ckpts :
                                     \A d \in ckpts : d.epoch <= c.epoch}}
    IN  {[train_from |-> tf, d_train_from |-> NoPath, start_epoch |-> se] :
            tf \in names, se \in 1..MaxEpochs}
        \cup
        {[train_from |-> tf, d_train_from |-> dtf, start_epoch |-> 1] :
            tf \in latest, dtf \in names}
        \cup
        {[train_from |-> NoPath, d_train_from |-> dtf,
          start_epoch |-> opt.epochs] : dtf \in names}

\* The script is run again with -train_from or -d_train_from naming
\* checkpoints on disk: a new process, the same files.
Resume ==
    /\ pc[1] \in {"done", "raised"}
    /\ ~resumed
    /\ \E a \in ResumeArgs :
         /\ opt' = [opt EXCEPT !.train_from = a.train_from,
                               !.d_train_from = a.d_train_from,
                               !.start_epoch = a.start_epoch]
         /\ argv' = [start_epoch |-> a.start_epoch,
                     train_from |-> a.train_from]
    /\ pc' = <<"config", "">>
    /\ datasets' = NoGenerator
    /\ di' = NoDatasetIter
    /\ frame' = NewFrame
    /\ reads' = <<>>
    /\ yielded' = <<>>
    /\ main_datasets' = NoChain
    /\ first_dataset' = NoDataset
    /\ checkpoint' = NoCheckpoint
    /\ optims' = NoOptims
    /\ epoch' = 0
    /\ valid_ppl' = 0
    /\ phases' = <<>>
    /\ written' = <<>>
    /\ resumed' = TRUE
    /\ d_checkpoint' = NoCheckpoint
    /\ fields' = NoFields
    /\ UNCHANGED <<inputVars, ckpts>>

Next ==
    \/ ConfigChecks
    \/ CrayonSetup
    \/ MainPeek
    \/ MainTrainFrom
    \/ MainLoadFields
    \/ MainBuild
    \/ ForEpoch
    \/ TrainSetup
    \/ TrainStep
    \/ ValidSetup
    \/ ValidStep
    \/ EpochLog
    \/ EpochStep
    \/ DropCheckpoint
    \/ Resume

Spec == Init /\ [][Next]_vars

\* ===================================================== claims on SpecIter
\* The shards of the role in the order load_dataset supplies them.
Supplied ==
    IF datasets.pts # <<>> THEN datasets.pts ELSE <<File(datasets.role, -1)>>

ShardRank(f) == CHOOSE i \in 1..Len(Supplied) : Supplied[i] = f

RECURSIVE Flat(_)
Flat(batches) ==
    IF batches = <<>> THEN <<>> ELSE Head(batches) \o Flat(Tail(batches))

\* The examples of file f among the first q batches yielded, in order.
YieldedOf(f, q) ==
    SelectSeq(Flat(SubSeq(yielded, 1, q)), LAMBDA e : e.file = f)

ExamplesOf(f) == dataset_loader(f).examples

\* C1: every batch of shard i is yielded before any batch of shard i+1:
\* when a batch of a shard is yielded, every earlier shard has been yielded
\* in full, exactly once, and no later shard has been touched; when the
\* iterator is exhausted every shard has been yielded in full exactly once.
C1_ShardsInOrder ==
    /\ \A q \in 1..Len(yielded) :
         /\ \E i \in 1..Len(Supplied) : Supplied[i] = yielded[q][1].file
         /\ \A i \in 1..Len(Supplied) :
              LET r == ShardRank(yielded[q][1].file)
              IN  /\ i < r => YieldedOf(Supplied[i], q - 1) = ExamplesOf(Supplied[i])
                  /\ i > r => YieldedOf(Supplied[i], q) = <<>>
    /\ pc[1] = "exhausted" =>
         \A i \in 1..Len(Supplied) :
            YieldedOf(Supplied[i], Len(yielded)) = ExamplesOf(Supplied[i])

\* C1 witness: an exhausted iterator over two shards that gave three or
\* more batches.
C1_Witness ==
    /\ pc[1] = "exhausted"
    /\ Len(Supplied) >= 2
    /\ Len(yielded) >= 3
    /\ yielded[1][1].file # yielded[Len(yielded)][1].file

\* The batch size the caller's role selects.
RoleBatchSize == IF pc[2] = "train" THEN opt.batch_size ELSE opt.valid_batch_size

RECURSIVE ExpectedSizes(_, _)
ExpectedSizes(n, b) ==
    IF n = 0 THEN <<>>
    ELSE IF n <= b THEN <<n>>
    ELSE <<b>> \o ExpectedSizes(n - b, b)

RECURSIVE ExpectedAll(_, _)
ExpectedAll(files, b) ==
    IF files = <<>> THEN <<>>
    ELSE ExpectedSizes(disk[Head(files)], b) \o ExpectedAll(Tail(files), b)

RECURSIVE SumCeil(_, _)
SumCeil(files, b) ==
    IF files = <<>> THEN 0
    ELSE ((disk[Head(files)] + b - 1) \div b) + SumCeil(Tail(files), b)

\* C2: with batch size B the iterator yields sum_i ceil(n_i / B) batches in
\* all, of sizes B,..,B,rest shard by shard, and every batch holds examples
\* of exactly one shard.
C2_BatchCount ==
    /\ \A q \in 1..Len(yielded) :
         /\ Len(yielded[q]) \in 1..RoleBatchSize
         /\ Cardinality({yielded[q][j].file : j \in 1..Len(yielded[q])}) = 1
    /\ pc[1] = "exhausted" =>
         /\ Len(yielded) = SumCeil(Supplied, RoleBatchSize)
         /\ [q \in 1..Len(yielded) |-> Len(yielded[q])]
                = ExpectedAll(Supplied, RoleBatchSize)

\* C2 witness: two shards of 3 examples with B = 2 gave 4 batches of sizes
\* 2,1,2,1.
C2_Witness ==
    /\ pc = <<"exhausted", "train">>
    /\ opt.batch_size = 2
    /\ Len(Supplied) = 2
    /\ \A i \in 1..2 : disk[Supplied[i]] = 3
    /\ [q \in 1..Len(yielded) |-> Len(yielded[q])] = <<2, 1, 2, 1>>

\* The numbered files of a set in ascending numeric index order.
RECURSIVE ByIndex(_)
ByIndex(S) ==
    IF S = {} THEN <<>>
    ELSE LET m == CHOOSE x \in S : \A y \in S : x.idx <= y.idx
         IN  <<m>> \o ByIndex(S \ {m})

IsPrefix(s, t) == Len(s) <= Len(t) /\ s = SubSeq(t, 1, Len(s))

\* C5: load_dataset produces the numbered files of the role in ascending
\* numeric index order when there is one, and the unnumbered file only when
\* there is none.
C5_NumericOrder ==
    pc[1] \in {"iterating", "exhausted"} =>
        LET want == IF Glob(pc[2]) # {} THEN ByIndex(Glob(pc[2]))
                    ELSE <<File(pc[2], -1)>>
        IN  /\ IsPrefix(reads, want)
            /\ pc[1] = "exhausted" => reads = want

\* C6: load_dataset reads no file; the file of a shard is read only after
\* every batch of the shard before it has been yielded; and the shard read
\* last is the one the iterator is on.
C6_Lazy ==
    /\ pc[1] \in {"caller", "loaded"} => reads = <<>>
    /\ \A j \in 2..Len(reads) :
         YieldedOf(reads[j - 1], Len(yielded)) = ExamplesOf(reads[j - 1])
    /\ pc[1] = "iterating" =>
         /\ reads # <<>>
         /\ reads[Len(reads)] = di.cur_dataset.file
         /\ \A q \in 1..Len(yielded) :
              \E j \in 1..Len(reads) : reads[j] = yielded[q][1].file

\* C6 witness: the second shard has just been read, after the whole first
\* shard was yielded.
C6_Witness ==
    /\ pc[1] = "iterating"
    /\ Len(reads) = 2
    /\ Len(Supplied) >= 2
    /\ yielded # <<>>
    /\ yielded[Len(yielded)][1].file = reads[2]

\* ========================================================= claims on Spec
\* The epochs whose training the process has started, in order.
TrainedEpochs ==
    LET t == SelectSeq(phases, LAMBDA ph : ph[2] = "TRAINING")
    IN  [i \in 1..Len(t) |-> t[i][1]]

\* The epochs lo..hi as a sequence.
Range(lo, hi) == [i \in 1..(IF hi >= lo THEN hi - lo + 1 ELSE 0) |-> lo + i - 1]

\* C3: a run resumed from a checkpoint of epoch E starts at epoch E+1
\* whatever -start_epoch was given, and runs exactly the epochs E+1..epochs
\* (none when E >= epochs).
C3_ResumeEpoch ==
    ~checkpoint.none =>
        /\ checkpoint.name = argv.train_from
        /\ opt.start_epoch = checkpoint.epoch + 1
        /\ phases # <<>> => phases[1] = <<checkpoint.epoch + 1, "TRAINING">>
        /\ IsPrefix(TrainedEpochs, Range(checkpoint.epoch + 1, opt.epochs))
        /\ At("done") => TrainedEpochs = Range(checkpoint.epoch + 1, opt.epochs)

\* C3 witness: a resumed run given another -start_epoch has completed,
\* having run the epochs after the checkpoint's.
C3_Witness ==
    /\ At("done")
    /\ ~checkpoint.none
    /\ argv.start_epoch # checkpoint.epoch + 1
    /\ TrainedEpochs # <<>>
    /\ TrainedEpochs[1] = checkpoint.epoch + 1

\* C4: the three optimizers of a resumed run have the state (step counter,
\* learning rate) the checkpoint saved.
C4_OptimRoundTrip ==
    (At("for") /\ epoch = 0 /\ ~checkpoint.none) => optims = checkpoint.optims

Last(seq) == seq[Len(seq)]

PhaseFollows(a, b) ==
    \/ a[2] = "TRAINING" /\ b = <<a[1], "VALIDATING">>
    \/ a[2] = "VALIDATING" /\ b = <<a[1], "RATE_UPDATE">>
    \/ a[2] = "RATE_UPDATE" /\ b = <<a[1], "CHECKPOINT">>
    \/ a[2] = "RATE_UPDATE" /\ b = <<a[1] + 1, "TRAINING">>
    \/ a[2] = "CHECKPOINT" /\ b = <<a[1] + 1, "TRAINING">>

\* C7: the phases of a run come in the order TRAINING, VALIDATING,
\* RATE_UPDATE, optional CHECKPOINT, epoch after epoch from the start epoch,
\* each once; the code is in the phase it entered last; and the run is done
\* only when the last of the epochs start_epoch..epochs has been through
\* its phases.
C7_PhaseOrder ==
    /\ phases # <<>> => phases[1] = <<opt.start_epoch, "TRAINING">>
    /\ \A i \in 1..(Len(phases) - 1) : PhaseFollows(phases[i], phases[i + 1])
    /\ At("training") => Last(phases) = <<epoch, "TRAINING">>
    /\ At("validating") => Last(phases) = <<epoch, "VALIDATING">>
    /\ At("checkpoint") => Last(phases) = <<epoch, "RATE_UPDATE">>
    /\ At("done") =>
         IF opt.start_epoch <= opt.epochs
         THEN /\ phases # <<>>
              /\ Last(phases)[1] = opt.epochs
              /\ Last(phases)[2] \in {"RATE_UPDATE", "CHECKPOINT"}
         ELSE phases = <<>>

\* C7 witness: a run of epochs 1 and 2 that checkpoints from epoch 2 on is
\* done.
C7_Witness ==
    /\ At("done")
    /\ phases = << <<1, "TRAINING">>, <<1, "VALIDATING">>, <<1, "RATE_UPDATE">>,
                   <<2, "TRAINING">>, <<2, "VALIDATING">>, <<2, "RATE_UPDATE">>,
                   <<2, "CHECKPOINT">> >>

\* C8: a checkpoint is never written for an epoch below start_checkpoint_at
\* nor twice for an epoch, and a run that completes has written one for
\* exactly the epochs it ran that are >= start_checkpoint_at.
C8_CheckpointIff ==
    /\ \A i \in 1..Len(written) :
         /\ written[i] >= opt.start_checkpoint_at
         /\ \A j \in 1..Len(written) : written[i] = written[j] => i = j
    /\ At("done") =>
         \A e \in opt.start_epoch..opt.epochs :
            (\E i \in 1..Len(written) : written[i] = e)
                <=> e >= opt.start_checkpoint_at
    /\ At("done") => \A i \in 1..Len(written) :
                        written[i] \in opt.start_epoch..opt.epochs

\* C8 witness: a completed run that ran an epoch without a checkpoint and
\* an epoch with one.
C8_Witness ==
    /\ At("done")
    /\ Len(written) >= 1
    /\ Len(TrainedEpochs) > Len(written)

\* C9: while an epoch e after the run's first epoch is being processed, a
\* checkpoint of epoch e-1 is on disk.
C9_PreviousCheckpoint ==
    epoch > opt.start_epoch => \E c \in ckpts : c.epoch = epoch - 1

\* C9 as amended: while an epoch e after the run's first epoch is being
\* processed, a checkpoint of epoch e-1 is on disk provided
\* e-1 >= start_checkpoint_at.
C9_PreviousCheckpointFrom ==
    (epoch > opt.start_epoch /\ epoch - 1 >= opt.start_checkpoint_at)
        => \E c \in ckpts : c.epoch = epoch - 1

\* C9 witness: the run was stopped by an exception while training its
\* second epoch, with the checkpoint of the first on disk.
C9_Witness ==
    /\ pc[1] = "raised"
    /\ epoch > opt.start_epoch
    /\ epoch - 1 >= opt.start_checkpoint_at
    /\ Last(phases) = <<epoch, "TRAINING">>
    /\ \E c \in ckpts : c.epoch = epoch - 1

\* C10: a failure of the remote logging server never stops the run.
C10_LoggingNonFatal == pc # Raised("logging")

\* C11: a run that stops for want of a dataset file of either role has
\* processed no training batch (no optimizer has taken a step).
C11_MissingDataEarly ==
    pc = Raised("data") => \A t \in OptimTypes : optims[t].step = 0

\* A configuration the script refuses: SRU without a device, or more than
\* one device.
InvalidConfig ==
    \/ opt.rnn_type = "SRU" /\ opt.gpuid = <<>>
    \/ Len(opt.gpuid) > 1

\* C12: under an invalid configuration the process never gets past the
\* module-level checks: it has read no dataset file, no vocabulary and no
\* checkpoint, and has built no model or optimizer.
C12_ConfigRejectedEarly ==
    InvalidConfig =>
        /\ pc[1] \in {"config", "raised"}
        /\ reads = <<>>
        /\ first_dataset = NoDataset
        /\ checkpoint = NoCheckpoint
        /\ d_checkpoint = NoCheckpoint
        /\ fields = NoFields
        /\ optims = NoOptims

\* C12 witness: the process was given two devices and has been refused.
C12_Witness ==
    /\ pc = Raised("config")
    /\ Len(opt.gpuid) = 2

\* C13: once main is past its checkpoint loading, the checkpoint named by
\* -d_train_from, when one is named, is the discriminator checkpoint that
\* model construction gets, with or without -train_from.
C13_DiscriminatorResume ==
    (opt.d_train_from # NoPath /\ (At("fields") \/ At("build")
                                     \/ optims # NoOptims))
        => /\ ~d_checkpoint.none
           /\ d_checkpoint.name = opt.d_train_from

\* C14: load_fields returns for every dataset, and from then on the field
\* 'per' has the vocabulary of the field 'tgt'.
C14_PerSharesTgtVocab ==
    /\ pc # Raised("fields")
    /\ fields # NoFields =>
         /\ {"per", "tgt"} \subseteq DOMAIN fields
         /\ fields["per"] = fields["tgt"]

\* ===================================================== claims on SpecTokens
\* The cost of an example and of a batch under the token-budget policy.
ExampleCost(e) == Max(lens[e.file][e.pos].tgt, lens[e.file][e.pos].src) + 1

RECURSIVE BatchCost(_)
BatchCost(batch) ==
    IF batch = <<>> THEN 0 ELSE ExampleCost(Head(batch)) + BatchCost(Tail(batch))

RECURSIVE AllExamples(_)
AllExamples(files) ==
    IF files = <<>> THEN <<>>
    ELSE ExamplesOf(Head(files)) \o AllExamples(Tail(files))

\* C15: with -batch_type tokens and budget B = batch_size, every batch the
\* training iterator yields is not empty and costs at most B, unless it is
\* a single example that alone costs more than B; and the batches of an
\* exhausted iterator hold every example once, in order.
C15_TokenBudget ==
    /\ \A q \in 1..Len(yielded) :
         /\ yielded[q] # <<>>
         /\ \/ BatchCost(yielded[q]) <= opt.batch_size
            \/ Len(yielded[q]) = 1 /\ ExampleCost(yielded[q][1]) > opt.batch_size
    /\ pc[1] = "exhausted" => Flat(yielded) = AllExamples(Supplied)

\* C15 witness: an exhausted iterator gave a batch of two examples or more
\* within the budget and a batch of one example above the budget.
C15_Witness ==
    /\ pc[1] = "exhausted"
    /\ \E q \in 1..Len(yielded) : Len(yielded[q]) >= 2
    /\ \E q \in 1..Len(yielded) :
         Len(yielded[q]) = 1 /\ BatchCost(yielded[q]) > opt.batch_size

\* ============================================ claims on SpecIter, continued
\* The DatasetIter is in its state EXHAUSTED: self.cur_iter is None.
Exhausted == di.cur_iter.none

Constructed == pc[1] \in {"iterating", "exhausted", "again", "over"}

\* C16: a constructed DatasetIter is EXHAUSTED exactly when its generator
\* of datasets has finished, and then every batch of every shard has been
\* yielded; once EXHAUSTED it stays EXHAUSTED and yields no further batch,
\* so a second loop over it ends with the batches of the first loop only.
C16_ExhaustedTerminal ==
    /\ [](Constructed =>
            /\ Exhausted <=> datasets.state = "finished"
            /\ Exhausted => Flat(yielded) = AllExamples(Supplied)
            /\ pc[1] \in {"exhausted", "again", "over"} => Exhausted)
    /\ [][(Constructed /\ Exhausted) =>
             (di'.cur_iter.none /\ yielded' = yielded /\ reads' = reads)]_vars

\* C16 witness: a second loop over an exhausted DatasetIter of two shards
\* has ended, and the batches yielded are those of the two shards.
C16_Witness ==
    /\ pc[1] = "over"
    /\ Exhausted
    /\ Len(Supplied) = 2
    /\ Len(yielded) >= 2
    /\ Flat(yielded) = AllExamples(Supplied)

\* ================================================ claims on Spec, continued
\* The shard files of a role in the order load_dataset gives them.
RoleShards(role) ==
    IF Glob(role) # {} THEN Sorted(Glob(role)) ELSE <<File(role, -1)>>

\* The files of the datasets a chain still supplies.
RECURSIVE ChainFiles(_)
ChainFiles(c) ==
    LET r == ChainNext(c)
    IN  IF r.kind = "value" THEN <<r.dataset.file>> \o ChainFiles(r.chain)
        ELSE <<>>

RECURSIVE Repeat(_, _)
Repeat(seq, n) == IF n = 0 THEN <<>> ELSE seq \o Repeat(seq, n - 1)

\* C17: the training pass of every epoch yields every example of all the
\* train shards and its validation pass every example of all the valid
\* shards, shard by shard in the same order; the files the process has read
\* after n whole epochs are the shard main peeked followed n times by the
\* train shards and the valid shards; main's own sequence, with the peeked
\* shard put back, is never consumed and still supplies every train shard.
C17_EveryEpochAllShards ==
    /\ first_dataset # NoDataset =>
         ChainFiles(main_datasets) = RoleShards("train")
    /\ At("valid") => Flat(yielded) = AllExamples(RoleShards("train"))
    /\ At("log") => Flat(yielded) = AllExamples(RoleShards("valid"))
    /\ (At("for") \/ At("done")) =>
         reads = <<RoleShards("train")[1]>>
                    \o Repeat(RoleShards("train") \o RoleShards("valid"),
                              Len(TrainedEpochs))

\* C17 witness: a run of two epochs over two train shards is done, each
\* epoch having read both train shards and the valid shard.
C17_Witness ==
    /\ At("done")
    /\ Len(TrainedEpochs) = 2
    /\ Len(RoleShards("train")) = 2
    /\ Len(reads) = 1 + 2 * (2 + Len(RoleShards("valid")))
    /\ main_datasets.items = <<first_dataset>>

====
